---------------------------- MODULE Spec2Model ----------------------------
(***************************************************************************)
(* Model of txmpp's framed TCP transport (src/src/asynctcpsocket.cc) and   *)
(* of the hello example's XmppThread message pump                          *)
(* and lsb_release cache (src/src/examples/hello/xmppthread.cc).           *)
(*                                                                         *)
(* Scale.  The program works on 8-bit bytes (256 values); its length       *)
(* prefix PacketLength is a uint16, i.e. PKT_LEN_SIZE = 2 bytes, which     *)
(* holds 256^2 values, and MAX_PACKET_SIZE = 64 * 1024 = 256^2.  The model *)
(* keeps every one of these relations and scales the byte: a byte has      *)
(* ByteValues values, PacketLength holds ByteValues^2 values (arithmetic   *)
(* on it is modulo that), MAX_PACKET_SIZE = ByteValues^2 and BUF_SIZE =    *)
(* MAX_PACKET_SIZE + PKT_LEN_SIZE.                                         *)
(***************************************************************************)
EXTENDS Integers, Sequences, FiniteSets, TLC

VARIABLES
    \* ---- the sending transport and its byte socket
    outbuf_,    \* char outbuf_[outsize_]: the whole array, stale bytes included
    outpos_,    \* size_t outpos_: fill cursor of outbuf_
    error,      \* the value last given to socket_->SetError by the transport
    wire,       \* every byte socket_->Send has accepted so far, in order
    log,        \* one record per Send/SendTo/SendRaw call: what it returned
    \* ---- the receiving transport and its byte socket
    inbuf_,     \* char inbuf_[insize_]
    inpos_,     \* size_t inpos_: fill cursor of inbuf_
    pending,    \* bytes that have arrived on the socket and were not Recv'd yet
    packets,    \* the SignalReadPacket payloads raised so far, in order
    nreads,     \* number of read events whose Recv returned at least one byte
    lastRead,   \* the record of the last OnReadEvent
    peerSent,   \* the payloads the remote peer framed and sent, in order
    \* ---- listening: the connections of a transport that listens
    listen_,    \* bool listen_ of the transport (inbuf_, inpos_, ... above)
    backlog,    \* the connections waiting to be accepted on its socket
    conns,      \* the accepted sockets and the transports created for them
    events,     \* SignalNewConnection of the transport and SignalReadPacket
                \* of the transports it created, in the order raised
    \* ---- XmppThread and the message queue of its thread
    queue,      \* the messages posted and not dispatched yet, oldest first
    requests,   \* the Login and Disconnect calls made so far, in order
    calls,      \* the calls made on pump_ so far, in order
    objects,    \* the objects created with new so far, in order
    deleted,    \* the delete expressions run so far, in order: the object
                \* (index into objects) and the number of calls made on
                \* pump_ before it
    \* ---- the callers of the sending transport
    sentTo,     \* the addr argument of each SendTo call so far, in order
    \* ---- ReadLinuxLsbRelease and the threads that call it
    lsb_release_string,          \* static std::string: the cached result
    lsb_release_string_critsec,  \* the thread inside the CriticalSection
    pc,         \* where each thread is in ReadLinuxLsbRelease
    locals,     \* each thread's locals in ReadLinuxLsbRelease
    returned    \* one record per call that has returned, in order

sendVars == <<outbuf_, outpos_, error, wire, log>>
recvVars == <<inbuf_, inpos_, pending, packets, nreads, lastRead, peerSent>>
acceptVars == <<listen_, backlog, conns, events>>
threadVars == <<queue, requests, calls, objects, deleted>>
callVars == <<sentTo>>
lsbVars == <<lsb_release_string, lsb_release_string_critsec, pc, locals, returned>>
vars == <<sendVars, recvVars, acceptVars, threadVars, callVars, lsbVars>>

---------------------------------------------------------------------------
(* Bounds of the model *)

\* Number of values of one byte (256 in the program).
ByteValues == 2

\* Number of Send calls explored on the sending transport.
MaxSends == 2

\* Number of frames in the byte stream a remote peer sends.
MaxFrames == 3

\* Number of connections made to a listening transport.
MaxConns == 2

\* Number of Login and Disconnect calls made on an XmppThread.
MaxRequests == 4

\* The longest payload a peer sends before its connection is accepted.
MaxEarly == 1

\* Number of threads that call ReadLinuxLsbRelease.
MaxThreads == 2

\* Number of ReadLinuxLsbRelease calls made in all.
MaxCalls == 3

---------------------------------------------------------------------------
(* Constants of asynctcpsocket.cc *)

Byte == 0 .. ByteValues - 1

\* typedef uint16 PacketLength; PKT_LEN_SIZE = sizeof(PacketLength)
PKT_LEN_SIZE == 2

\* Number of values of a PacketLength: PKT_LEN_SIZE bytes of ByteValues values.
PacketLengthRange == ByteValues * ByteValues

\* static const size_t MAX_PACKET_SIZE = 64 * 1024  (= 256 * 256)
MAX_PACKET_SIZE == ByteValues * ByteValues

\* A buffer with room for the longest payload but not for its prefix.
BufSizeNoPrefix == MAX_PACKET_SIZE

\* static const size_t BUF_SIZE = MAX_PACKET_SIZE + PKT_LEN_SIZE
BUF_SIZE == MAX_PACKET_SIZE + PKT_LEN_SIZE

\* An array cell that new char[n] allocated and nothing has written yet.
Uninit == -1

\* new char[n]
NewBuffer(n) == [i \in 1 .. n |-> Uninit]

---------------------------------------------------------------------------
(* Helpers of the C++ library, on arrays held as sequences (index 1 is     *)
(* offset 0)                                                               *)

Min(a, b) == IF a <= b THEN a ELSE b

\* memcpy(dst + off, src, n) and memmove(dst + off, src, n): src is a value.
memcpy(dst, off, src, n) ==
    [i \in 1 .. Len(dst) |->
        IF i > off /\ i <= off + n THEN src[i - off] ELSE dst[i]]

\* The n bytes of array a that start at offset off.
Bytes(a, off, n) == [i \in 1 .. n |-> a[off + i]]

\* static_cast<PacketLength>(cb): conversion to the unsigned 2-byte type.
ToPacketLength(cb) == cb % PacketLengthRange

\* HostToNetwork16(v): the PKT_LEN_SIZE bytes of v, most significant first.
HostToNetwork16(v) == <<v \div ByteValues, v % ByteValues>>

\* NetworkToHost16 of the two bytes read from the buffer.
NetworkToHost16(b) == b[1] * ByteValues + b[2]

---------------------------------------------------------------------------
(* The byte socket the transport owns (socket_) *)

\* socket_->Send(buf, n): -1 (error or would block) or the number of bytes
\* accepted, at most n.
SocketSendResults(n) == -1 .. n

\* The bytes socket_->Send took from buf when it returned res.
SocketTaken(buf, res) == IF res > 0 THEN Bytes(buf, 0, res) ELSE <<>>

---------------------------------------------------------------------------
(* AsyncTCPSocket: the sending side *)

\* Flush without the memmove of the bytes left.
FlushNoShift(buf, pos, res) ==
    IF res <= 0 THEN [outbuf |-> buf, outpos |-> pos, ret |-> res]
    ELSE IF res <= pos THEN [outbuf |-> buf, outpos |-> pos - res, ret |-> res]
    ELSE [outbuf |-> buf, outpos |-> pos, ret |-> -1]

\* int AsyncTCPSocket::Flush(), given what socket_->Send(outbuf_, outpos_)
\* returned: the new outbuf_, outpos_ and the value returned.
Flush(buf, pos, res) ==
    IF res <= 0 THEN [outbuf |-> buf, outpos |-> pos, ret |-> res]
    ELSE IF res <= pos
    THEN LET p == pos - res
         IN  [outbuf |-> IF p > 0 THEN memcpy(buf, 0, Bytes(buf, res, p), p)
                         ELSE buf,
              outpos |-> p,
              ret    |-> res]
    ELSE [outbuf |-> buf, outpos |-> pos, ret |-> -1]

\* What socket_->Send returned to a call that made no such call, and to a
\* call that made one.
NoCall == <<>>
Returned(res) == <<res>>

\* The sending transport and what its socket has accepted, as one value.
SendState ==
    [outbuf |-> outbuf_, outpos |-> outpos_, wire |-> wire, error |-> error]

\* The record of one call: its argument, the value it returned, what
\* socket_->Send returned to it (NoCall when it made no such call), the
\* bytes of outbuf_[0, outpos_) right before its Flush (<<>> when it framed
\* nothing), and the sending side before and after the call.
LogEntry(op, pv, ret, sock, framed, pre, post) ==
    [op |-> op, pv |-> pv, ret |-> ret, sock |-> sock, framed |-> framed,
     pre |-> pre, post |-> post]

\* Send, lines 92-95: the payload is too long.
SendTooBig(pv) ==
    /\ error' = "EMSGSIZE"
    /\ UNCHANGED <<outbuf_, outpos_, wire>>
    /\ log' = Append(log, LogEntry("Send", pv, -1, NoCall, <<>>,
                                   SendState, SendState'))

\* Send, lines 97-99: blocking on send, the packet is silently dropped.
SendDropped(pv) ==
    /\ UNCHANGED <<outbuf_, outpos_, wire, error>>
    /\ log' = Append(log, LogEntry("Send", pv, Len(pv), NoCall, <<>>,
                                   SendState, SendState'))

\* Send, lines 101-114: the packet is framed into outbuf_ and flushed.
SendFramed(pv) ==
    LET cb == Len(pv)
        pkt_len == HostToNetwork16(ToPacketLength(cb))
        buf1 == memcpy(outbuf_, 0, pkt_len, PKT_LEN_SIZE)
        buf2 == memcpy(buf1, PKT_LEN_SIZE, pv, cb)
        pos  == PKT_LEN_SIZE + cb
    IN  \E sock \in SocketSendResults(pos) :
          LET res == Flush(buf2, pos, sock) IN
          /\ wire' = wire \o SocketTaken(buf2, sock)
          /\ outbuf_' = res.outbuf
          /\ outpos_' = IF res.ret <= 0 THEN 0 ELSE res.outpos
          /\ UNCHANGED error
          /\ log' = Append(log, LogEntry("Send", pv,
                              IF res.ret <= 0 THEN res.ret ELSE cb,
                              Returned(sock),
                              Bytes(buf2, 0, pos), SendState, SendState'))

\* Send with its two early returns in the other order.
SendBlockedFirst(pv) ==
    IF outpos_ # 0 THEN SendDropped(pv)
    ELSE IF Len(pv) > MAX_PACKET_SIZE THEN SendTooBig(pv)
    ELSE SendFramed(pv)

\* Send without the test of outpos_: the new packet overwrites the one in
\* flight.
SendNoBlockedTest(pv) ==
    IF Len(pv) > MAX_PACKET_SIZE THEN SendTooBig(pv)
    ELSE SendFramed(pv)

\* Send that keeps the packet buffered, and claims to have sent it, when the
\* flush made no progress.
SendKeepsOnNoProgress(pv) ==
    IF Len(pv) > MAX_PACKET_SIZE THEN SendTooBig(pv)
    ELSE IF outpos_ # 0 THEN SendDropped(pv)
    ELSE LET cb == Len(pv)
             pkt_len == HostToNetwork16(ToPacketLength(cb))
             buf1 == memcpy(outbuf_, 0, pkt_len, PKT_LEN_SIZE)
             buf2 == memcpy(buf1, PKT_LEN_SIZE, pv, cb)
             pos  == PKT_LEN_SIZE + cb
         IN  \E sock \in SocketSendResults(pos) :
               LET res == Flush(buf2, pos, sock) IN
               /\ wire' = wire \o SocketTaken(buf2, sock)
               /\ outbuf_' = res.outbuf
               /\ outpos_' = res.outpos
               /\ UNCHANGED error
               /\ log' = Append(log, LogEntry("Send", pv, cb, Returned(sock),
                                   Bytes(buf2, 0, pos), SendState, SendState'))

\* int AsyncTCPSocket::Send(const void* pv, size_t cb), pv the cb bytes.
Send(pv) ==
    IF Len(pv) > MAX_PACKET_SIZE THEN SendTooBig(pv)
    ELSE IF outpos_ # 0 THEN SendDropped(pv)
    ELSE SendFramed(pv)

\* The addresses a caller passes to SendTo; GetRemoteAddress() is the
\* address the transport's socket is connected to.
GetRemoteAddress == "remote"
Addresses == {GetRemoteAddress, "other"}

\* SendTo, lines 122-124: the address is not the remote address.  (The
\* ASSERT(false) of line 122 is compiled out of a release build.)
SendToNotConnected(pv) ==
    /\ error' = "ENOTCONN"
    /\ UNCHANGED <<outbuf_, outpos_, wire>>
    /\ log' = Append(log, LogEntry("SendTo", pv, -1, NoCall, <<>>,
                                   SendState, SendState'))

\* SendTo that sends whatever the address.
SendToAnyAddress(pv, addr) == Send(pv)

\* int AsyncTCPSocket::SendTo(const void *pv, size_t cb,
\*                            const SocketAddress& addr)
SendTo(pv, addr) ==
    IF addr = GetRemoteAddress THEN Send(pv) ELSE SendToNotConnected(pv)

\* SendRaw, lines 128-131: the bytes do not fit after the ones buffered.
SendRawTooBig(pv) ==
    /\ error' = "EMSGSIZE"
    /\ UNCHANGED <<outbuf_, outpos_, wire>>
    /\ log' = Append(log, LogEntry("SendRaw", pv, -1, NoCall, <<>>,
                                   SendState, SendState'))

\* SendRaw, lines 133-136: the bytes are appended to outbuf_ and flushed.
\* Unlike Send, SendRaw keeps the bytes buffered when the flush fails.
SendRawAppended(pv) ==
    LET cb == Len(pv)
        buf1 == memcpy(outbuf_, outpos_, pv, cb)
        pos  == outpos_ + cb
    IN  \E sock \in SocketSendResults(pos) :
          LET res == Flush(buf1, pos, sock) IN
          /\ wire' = wire \o SocketTaken(buf1, sock)
          /\ outbuf_' = res.outbuf
          /\ outpos_' = res.outpos
          /\ UNCHANGED error
          /\ log' = Append(log, LogEntry("SendRaw", pv, res.ret,
                              Returned(sock),
                              Bytes(buf1, 0, pos), SendState, SendState'))

\* SendRaw without the test of the room left: outpos_ moves past the end of
\* outbuf_ (the copy overruns the array; the socket call is taken to fail).
SendRawNoRoomTest(pv) ==
    IF outpos_ + Len(pv) > BUF_SIZE
    THEN /\ outpos_' = outpos_ + Len(pv)
         /\ UNCHANGED <<outbuf_, wire, error>>
         /\ log' = Append(log, LogEntry("SendRaw", pv, -1, Returned(-1),
                                        <<>>, SendState, SendState'))
    ELSE SendRawAppended(pv)

\* int AsyncTCPSocket::SendRaw(const void * pv, size_t cb), pv the cb bytes.
\* (outpos_ + cb is computed in size_t; it cannot wrap for the cb of a
\* buffer that exists.)
SendRaw(pv) ==
    IF outpos_ + Len(pv) > BUF_SIZE THEN SendRawTooBig(pv)
    ELSE SendRawAppended(pv)

\* void AsyncTCPSocket::OnWriteEvent(AsyncSocket* socket)
OnWriteEvent ==
    IF outpos_ > 0
    THEN \E sock \in SocketSendResults(outpos_) :
           LET f == Flush(outbuf_, outpos_, sock) IN
           /\ wire' = wire \o SocketTaken(outbuf_, sock)
           /\ outbuf_' = f.outbuf
           /\ outpos_' = f.outpos
           /\ UNCHANGED <<error, log>>
    ELSE UNCHANGED sendVars

---------------------------------------------------------------------------
(* AsyncTCPSocket: the receiving side *)

\* socket_->Recv(buf, n) when avail bytes are waiting: -1 (error or would
\* block) or the number of bytes read, at most n and at most avail.
SocketRecvResults(avail, n) == -1 .. Min(avail, n)

\* The values ProcessInput leaves: the array, the length and the payloads
\* given to SignalReadPacket, in order.
Processed(data, len, pkts) == [data |-> data, len |-> len, pkts |-> pkts]

\* ProcessInput without the memmove of the bytes left.
RECURSIVE ProcessInputNoCompact(_, _)
ProcessInputNoCompact(data, len) ==
    IF len < PKT_LEN_SIZE THEN Processed(data, len, <<>>)
    ELSE LET pkt_len == NetworkToHost16(Bytes(data, 0, PKT_LEN_SIZE)) IN
         IF len < PKT_LEN_SIZE + pkt_len THEN Processed(data, len, <<>>)
         ELSE LET pkt  == Bytes(data, PKT_LEN_SIZE, pkt_len)
                  len2 == len - (PKT_LEN_SIZE + pkt_len)
                  rest == ProcessInputNoCompact(data, len2)
              IN  Processed(rest.data, rest.len, <<pkt>> \o rest.pkts)

\* ProcessInput that returns after the first packet.
RECURSIVE ProcessInputOnce(_, _)
ProcessInputOnce(data, len) ==
    IF len < PKT_LEN_SIZE THEN Processed(data, len, <<>>)
    ELSE LET pkt_len == NetworkToHost16(Bytes(data, 0, PKT_LEN_SIZE)) IN
         IF len < PKT_LEN_SIZE + pkt_len THEN Processed(data, len, <<>>)
         ELSE LET pkt  == Bytes(data, PKT_LEN_SIZE, pkt_len)
                  len2 == len - (PKT_LEN_SIZE + pkt_len)
                  data2 == IF len2 > 0
                           THEN memcpy(data, 0,
                                       Bytes(data, PKT_LEN_SIZE + pkt_len, len2),
                                       len2)
                           ELSE data
              IN  Processed(data2, len2, <<pkt>>)

\* void AsyncTCPSocket::ProcessInput(char* data, size_t& len)
RECURSIVE ProcessInput(_, _)
ProcessInput(data, len) ==
    IF len < PKT_LEN_SIZE THEN Processed(data, len, <<>>)
    ELSE LET pkt_len == NetworkToHost16(Bytes(data, 0, PKT_LEN_SIZE)) IN
         IF len < PKT_LEN_SIZE + pkt_len THEN Processed(data, len, <<>>)
         ELSE LET pkt  == Bytes(data, PKT_LEN_SIZE, pkt_len)
                  len2 == len - (PKT_LEN_SIZE + pkt_len)
                  data2 == IF len2 > 0
                           THEN memcpy(data, 0,
                                       Bytes(data, PKT_LEN_SIZE + pkt_len, len2),
                                       len2)
                           ELSE data
                  rest == ProcessInput(data2, len2)
              IN  Processed(rest.data, rest.len, <<pkt>> \o rest.pkts)

\* What OnReadEvent leaves when the transport does not listen: the new
\* inbuf_ and inpos_, the payloads signalled, whether the overflow reset ran.
ReadResult(buf, pos, pkts, overflow) ==
    [inbuf |-> buf, inpos |-> pos, pkts |-> pkts, overflow |-> overflow]

\* OnReadData with Recv storing at inbuf_ instead of inbuf_ + inpos_.
OnReadDataAtStart(buf, pos, insize, len, got) ==
    IF len < 0 THEN ReadResult(buf, pos, <<>>, FALSE)
    ELSE LET r == ProcessInput(memcpy(buf, 0, got, len), pos + len) IN
         IF r.len >= insize
         THEN ReadResult(r.data, 0, r.pkts, TRUE)
         ELSE ReadResult(r.data, r.len, r.pkts, FALSE)

\* OnReadData that gives up what is buffered when Recv fails.
OnReadDataResetsOnError(buf, pos, insize, len, got) ==
    IF len < 0 THEN ReadResult(buf, 0, <<>>, FALSE)
    ELSE LET r == ProcessInput(memcpy(buf, pos, got, len), pos + len) IN
         IF r.len >= insize
         THEN ReadResult(r.data, 0, r.pkts, TRUE)
         ELSE ReadResult(r.data, r.len, r.pkts, FALSE)

\* OnReadEvent of a transport that is not listening, lines 201-218, given
\* that Recv returned len and stored the len bytes got at inbuf_ + inpos_.

OnReadData(buf, pos, insize, len, got) ==
    IF len < 0 THEN ReadResult(buf, pos, <<>>, FALSE)
    ELSE LET r == ProcessInput(memcpy(buf, pos, got, len), pos + len) IN
         IF r.len >= insize
         THEN ReadResult(r.data, 0, r.pkts, TRUE)
         ELSE ReadResult(r.data, r.len, r.pkts, FALSE)

\* lastRead before the first read event.
NoRead == <<>>

\* The receiving transport as one value.
RecvState == [inbuf |-> inbuf_, inpos |-> inpos_, packets |-> packets]

\* The record of one OnReadEvent of the transport: what Accept returned to
\* it (NoCall, Returned(<<>>) for NULL, Returned(<<id>>) for a socket), what
\* Recv on its own socket returned to it (NoCall or Returned(len)), whether
\* the overflow reset ran, what was added to events, and the transport
\* before and after.
ReadEntry(accept, recv, overflow, raised, pre, post) ==
    [accept |-> accept, recv |-> recv, overflow |-> overflow,
     raised |-> raised, pre |-> pre, post |-> post]

\* AsyncTCPSocket::AsyncTCPSocket(AsyncSocket* socket, bool listen): the
\* members of the new transport.
AsyncTCPSocket(socket, listen) ==
    [socket_ |-> socket, listen_ |-> listen,
     inbuf_ |-> NewBuffer(BUF_SIZE), inpos_ |-> 0,
     outbuf_ |-> NewBuffer(BUF_SIZE), outpos_ |-> 0]

\* The signals kept in events.
NewConnection(transport) == [signal |-> "NewConnection", transport |-> transport]
ReadPacket(socket, pkt) == [signal |-> "ReadPacket", socket |-> socket, pkt |-> pkt]
ReadPackets(socket, pkts) == [i \in 1 .. Len(pkts) |-> ReadPacket(socket, pkts[i])]

\* An accepted socket with the bytes waiting on it, and its transport.
Connection(socket, waiting, transport) ==
    [socket |-> socket, waiting |-> waiting, transport |-> transport]

\* socket->Accept(&address): NULL (<<>>), or the first waiting connection.
SocketAcceptResults ==
    {<<>>} \cup (IF backlog = <<>> THEN {} ELSE {<<Head(backlog)>>})

\* OnReadEvent of a transport t that is not the one of the variables, on
\* whose socket the bytes waiting wait: Recv returns len.
ReadOn(t, waiting, len) ==
    LET got == IF len > 0 THEN SubSeq(waiting, 1, len) ELSE <<>>
        r   == OnReadData(t.inbuf_, t.inpos_, BUF_SIZE, len, got)
    IN  [transport |-> [t EXCEPT !.inbuf_ = r.inbuf, !.inpos_ = r.inpos],
         waiting   |-> SubSeq(waiting, Len(got) + 1, Len(waiting)),
         pkts      |-> r.pkts]

\* OnReadEvent of a listening transport that creates the new transport with
\* its own listen_: the read event primed on the accepted socket then runs
\* Accept on a connected socket, which returns NULL, and reads nothing.
OnReadEventListenInherits ==
    \E new_socket \in SocketAcceptResults :
      IF new_socket = <<>>
      THEN /\ lastRead' = <<ReadEntry(Returned(<<>>), NoCall, FALSE, <<>>,
                                      RecvState, RecvState)>>
           /\ UNCHANGED <<inbuf_, inpos_, pending, packets, nreads, backlog,
                          conns, events>>
      ELSE LET s == new_socket[1]
               t == AsyncTCPSocket(s.socket, listen_)
           IN  /\ backlog' = Tail(backlog)
               /\ conns' = Append(conns, Connection(s.socket, s.waiting, t))
               /\ events' = Append(events, NewConnection(t))
               /\ lastRead' = <<ReadEntry(Returned(<<s.socket>>), NoCall,
                                          FALSE, <<NewConnection(t)>>,
                                          RecvState, RecvState)>>
               /\ UNCHANGED <<inbuf_, inpos_, pending, packets, nreads>>

\* OnReadEvent of a listening transport that primes the read event on the
\* accepted socket before it raises SignalNewConnection.
OnReadEventListenPrimesFirst ==
    \E new_socket \in SocketAcceptResults :
      IF new_socket = <<>>
      THEN /\ lastRead' = <<ReadEntry(Returned(<<>>), NoCall, FALSE, <<>>,
                                      RecvState, RecvState)>>
           /\ UNCHANGED <<inbuf_, inpos_, pending, packets, nreads, backlog,
                          conns, events>>
      ELSE LET s == new_socket[1]
               t == AsyncTCPSocket(s.socket, FALSE)
           IN  \E len \in SocketRecvResults(Len(s.waiting), BUF_SIZE - t.inpos_) :
                 LET r == ReadOn(t, s.waiting, len)
                     raised == ReadPackets(s.socket, r.pkts)
                                 \o <<NewConnection(t)>>
                 IN  /\ backlog' = Tail(backlog)
                     /\ conns' = Append(conns, Connection(s.socket, r.waiting,
                                                          r.transport))
                     /\ events' = events \o raised
                     /\ lastRead' = <<ReadEntry(Returned(<<s.socket>>), NoCall,
                                                FALSE, raised,
                                                RecvState, RecvState)>>
                     /\ UNCHANGED <<inbuf_, inpos_, pending, packets, nreads>>

\* OnReadEvent, lines 186-199: the transport listens.  The read event primed
\* on the accepted socket runs the new transport's OnReadEvent.
OnReadEventListen ==
    \E new_socket \in SocketAcceptResults :
      IF new_socket = <<>>
      THEN /\ lastRead' = <<ReadEntry(Returned(<<>>), NoCall, FALSE, <<>>,
                                      RecvState, RecvState)>>
           /\ UNCHANGED <<inbuf_, inpos_, pending, packets, nreads, backlog,
                          conns, events>>
      ELSE LET s == new_socket[1]
               t == AsyncTCPSocket(s.socket, FALSE)
           IN  \E len \in SocketRecvResults(Len(s.waiting), BUF_SIZE - t.inpos_) :
                 LET r == ReadOn(t, s.waiting, len)
                     raised == <<NewConnection(t)>>
                                 \o ReadPackets(s.socket, r.pkts)
                 IN  /\ backlog' = Tail(backlog)
                     /\ conns' = Append(conns, Connection(s.socket, r.waiting,
                                                          r.transport))
                     /\ events' = events \o raised
                     /\ lastRead' = <<ReadEntry(Returned(<<s.socket>>), NoCall,
                                                FALSE, raised,
                                                RecvState, RecvState)>>
                     /\ UNCHANGED <<inbuf_, inpos_, pending, packets, nreads>>

\* OnReadEvent, lines 201-218: the transport does not listen.
OnReadEventData ==
    \E len \in SocketRecvResults(Len(pending), BUF_SIZE - inpos_) :
      LET got == IF len > 0 THEN SubSeq(pending, 1, len) ELSE <<>>
          r   == OnReadData(inbuf_, inpos_, BUF_SIZE, len, got)
      IN  /\ pending' = SubSeq(pending, Len(got) + 1, Len(pending))
          /\ inbuf_' = r.inbuf
          /\ inpos_' = r.inpos
          /\ packets' = packets \o r.pkts
          /\ nreads' = IF len > 0 THEN nreads + 1 ELSE nreads
          /\ lastRead' = <<ReadEntry(NoCall, Returned(len), r.overflow, <<>>,
                                     RecvState, RecvState')>>
          /\ UNCHANGED <<backlog, conns, events>>

\* void AsyncTCPSocket::OnReadEvent(AsyncSocket* socket)
OnReadEvent ==
    /\ IF listen_ THEN OnReadEventListen ELSE OnReadEventData
    /\ UNCHANGED <<listen_, peerSent>>

\* OnReadEvent of the transport created for the i-th accepted socket.
OnReadEventOfConnection(i) ==
    LET c == conns[i] IN
    \E len \in SocketRecvResults(Len(c.waiting), BUF_SIZE - c.transport.inpos_) :
      LET r == ReadOn(c.transport, c.waiting, len) IN
      /\ conns' = [conns EXCEPT ![i] = Connection(c.socket, r.waiting, r.transport)]
      /\ events' = events \o ReadPackets(c.socket, r.pkts)
      /\ UNCHANGED <<listen_, backlog, recvVars>>

---------------------------------------------------------------------------
(* XmppThread (examples/hello/xmppthread.cc) *)

\* const uint32 MSG_LOGIN = 1;  const uint32 MSG_DISCONNECT = 2;
MSG_LOGIN == 1
MSG_DISCONNECT == 2

\* txmpp::Message as OnMessage reads it: message_id, and pdata, which is
\* <<>> (NULL) or <<i>>, the LoginData that is objects[i].
Message(id, pdata) == [message_id |-> id, pdata |-> pdata]

\* An object created with new: its class, the function that created it
\* and, for a LoginData, its member xcs.
Object(class, by, xcs) == [class |-> class, by |-> by, xcs |-> xcs]

\* MessageQueue::Post(phandler, id, pdata): the message is put at the end
\* of the queue of the thread.
Post(id, pdata) == queue' = Append(queue, Message(id, pdata))

\* Login that posts only when no request is waiting.
LoginWhenIdle(xcs) ==
    /\ objects' = Append(objects, Object("LoginData", "Login", <<xcs>>))
    /\ IF queue = <<>> THEN Post(MSG_LOGIN, <<Len(objects) + 1>>)
       ELSE UNCHANGED queue
    /\ requests' = Append(requests, [request |-> "Login", xcs |-> <<xcs>>])
    /\ UNCHANGED <<calls, deleted>>

\* void XmppThread::Login(const txmpp::XmppClientSettings& xcs)
Login(xcs) ==
    /\ objects' = Append(objects, Object("LoginData", "Login", <<xcs>>))
    /\ Post(MSG_LOGIN, <<Len(objects) + 1>>)
    /\ requests' = Append(requests, [request |-> "Login", xcs |-> <<xcs>>])
    /\ UNCHANGED <<calls, deleted>>

\* void XmppThread::Disconnect()
Disconnect ==
    /\ Post(MSG_DISCONNECT, <<>>)
    /\ requests' = Append(requests, [request |-> "Disconnect", xcs |-> <<>>])
    /\ UNCHANGED <<calls, objects, deleted>>

\* The calls on pump_ kept in calls.
DoLogin(xcs, socket, auth) ==
    [call |-> "DoLogin", xcs |-> xcs, socket |-> socket, auth |-> auth]
DoDisconnect == [call |-> "DoDisconnect", xcs |-> <<>>, socket |-> <<>>, auth |-> <<>>]

\* The two arguments created with new in the call of DoLogin, in either
\* order of evaluation: the indexes in objects of the socket and of the auth.
NewArguments ==
    {[socket |-> Len(objects) + 1, auth |-> Len(objects) + 2,
      created |-> <<Object("XmppAsyncSocketImpl", "OnMessage", <<>>),
                    Object("PreXmppAuthImpl", "OnMessage", <<>>)>>],
     [socket |-> Len(objects) + 2, auth |-> Len(objects) + 1,
      created |-> <<Object("PreXmppAuthImpl", "OnMessage", <<>>),
                    Object("XmppAsyncSocketImpl", "OnMessage", <<>>)>>]}

\* delete of the object, run when n calls had been made on pump_.
Deleted(object, n) == [object |-> object, calls |-> n]

\* OnMessage that does not delete the LoginData of the message.
OnMessageKeepsData(pmsg) ==
    IF pmsg.message_id = MSG_LOGIN
    THEN /\ pmsg.pdata # <<>>
         /\ \E args \in NewArguments :
              /\ objects' = objects \o args.created
              /\ calls' = Append(calls, DoLogin(objects[pmsg.pdata[1]].xcs,
                                                <<args.socket>>, <<args.auth>>))
              /\ UNCHANGED deleted
    ELSE IF pmsg.message_id = MSG_DISCONNECT
    THEN /\ calls' = Append(calls, DoDisconnect)
         /\ UNCHANGED <<objects, deleted>>
    ELSE FALSE

\* OnMessage that tests for the wrong message id.
OnMessageWrongId(pmsg) ==
    IF pmsg.message_id = MSG_DISCONNECT /\ pmsg.pdata # <<>>
    THEN \E args \in NewArguments :
           /\ objects' = objects \o args.created
           /\ calls' = Append(calls, DoLogin(objects[pmsg.pdata[1]].xcs,
                                             <<args.socket>>, <<args.auth>>))
           /\ deleted' = Append(deleted, Deleted(pmsg.pdata[1], Len(calls')))
    ELSE /\ calls' = Append(calls, DoDisconnect)
         /\ UNCHANGED <<objects, deleted>>

\* void XmppThread::OnMessage(txmpp::Message* pmsg).  Both asserts hold for
\* every message Login and Disconnect post.
OnMessage(pmsg) ==
    IF pmsg.message_id = MSG_LOGIN
    THEN /\ pmsg.pdata # <<>>
         /\ \E args \in NewArguments :
              /\ objects' = objects \o args.created
              /\ calls' = Append(calls, DoLogin(objects[pmsg.pdata[1]].xcs,
                                                <<args.socket>>, <<args.auth>>))
              /\ deleted' = Append(deleted, Deleted(pmsg.pdata[1], Len(calls')))
    ELSE IF pmsg.message_id = MSG_DISCONNECT
    THEN /\ calls' = Append(calls, DoDisconnect)
         /\ UNCHANGED <<objects, deleted>>
    ELSE FALSE

\* The dispatch loop of the thread: the oldest message of the queue is
\* taken and given to its handler.
Dispatch ==
    /\ queue # <<>>
    /\ OnMessage(Head(queue))
    /\ queue' = Tail(queue)
    /\ UNCHANGED requests

---------------------------------------------------------------------------
(* ReadLinuxLsbRelease (examples/hello/xmppthread.cc): the cached output of *)
(* the lsb_release sub-process.  A std::string is the sequence of its       *)
(* characters; a string literal of the code counts as one character.        *)

Threads == 1 .. MaxThreads
NoThread == 0

\* The lines the sub-process may print: an empty line and a non-empty one.
Lines == {<<>>, <<"lucid">>}

\* What FileStream::ReadLine reports: a line, the end of the stream, or an
\* error.
ReadLineResults ==
    {[res |-> "SR_SUCCESS", line |-> l] : l \in Lines}
        \cup {[res |-> "SR_EOS", line |-> <<>>], [res |-> "SR_ERROR", line |-> <<>>]}

\* What POpenStream::GetWaitStatus reports after Close: -1, a status that
\* is not a normal exit, a non-zero exit code, or a normal exit with code 0.
WaitStatuses == {"failed", "signaled", "nonzero", "zero"}

ExpectLineFromStream(r) == r.res = "SR_SUCCESS"

\* The locals of one call: the state of lsb_release_output, the number of
\* lines read, sstr, wait_status, and the value being returned.
Locals(stream, n, str, status, ret) ==
    [stream |-> stream, nlines |-> n, sstr |-> str, wait_status |-> status,
     ret |-> ret]
NoLocals == Locals("unopened", 0, <<>>, "none", <<>>)

\* What the code writes to sstr around the line it has just read.
Label(n) ==
    CASE n = 0 -> <<"DISTRIB_ID=">>
      [] n = 1 -> <<" DISTRIB_DESCRIPTION=\"">>
      [] n = 2 -> <<" DISTRIB_RELEASE=">>
      [] n = 3 -> <<" DISTRIB_CODENAME=">>
Closing(n) == IF n = 1 THEN <<"\"">> ELSE <<>>
ExpectedLines == 4

\* The calls made so far: those that returned and those in progress.
CallsMade == Len(returned) + Cardinality({t \in Threads : pc[t] # "idle"})

\* A thread calls ReadLinuxLsbRelease and reaches the CritScope.
Call(t) ==
    /\ pc[t] = "idle"
    /\ CallsMade < MaxCalls
    /\ pc' = [pc EXCEPT ![t] = "enter"]
    /\ UNCHANGED <<lsb_release_string, lsb_release_string_critsec, locals, returned>>

\* CritScope's constructor: the thread waits until no thread is inside the
\* CriticalSection and enters it.
CritScopeEnter(t) ==
    /\ pc[t] = "enter"
    /\ lsb_release_string_critsec = NoThread
    /\ lsb_release_string_critsec' = t
    /\ pc' = [pc EXCEPT ![t] = "check"]
    /\ UNCHANGED <<lsb_release_string, locals, returned>>

\* A test of the cache that never finds a cached string.
CheckIgnoresCache(t) ==
    /\ pc[t] = "check"
    /\ pc' = [pc EXCEPT ![t] = "open"]
    /\ UNCHANGED <<lsb_release_string, lsb_release_string_critsec, locals, returned>>

\* The test of the cache: a non-empty cached string is returned.
Check(t) ==
    /\ pc[t] = "check"
    /\ IF lsb_release_string # <<>>
       THEN /\ locals' = [locals EXCEPT ![t].ret = lsb_release_string]
            /\ pc' = [pc EXCEPT ![t] = "return"]
       ELSE /\ pc' = [pc EXCEPT ![t] = "open"]
            /\ UNCHANGED locals
    /\ UNCHANGED <<lsb_release_string, lsb_release_string_critsec, returned>>

\* POpenStream::Open: the sub-process is run, or cannot be; on failure the
\* empty cache is returned.
Open(t) ==
    /\ pc[t] = "open"
    /\ \E ok \in BOOLEAN :
        IF ok
        THEN /\ locals' = [locals EXCEPT ![t].stream = "open"]
             /\ pc' = [pc EXCEPT ![t] = "read"]
        ELSE /\ locals' = [locals EXCEPT ![t].stream = "failed",
                                         ![t].ret = lsb_release_string]
             /\ pc' = [pc EXCEPT ![t] = "return"]
    /\ UNCHANGED <<lsb_release_string, lsb_release_string_critsec, returned>>

\* One of the four ExpectLineFromStream steps: the line read is written to
\* sstr after its label; a line that cannot be read returns the empty cache.
ReadLine(t) ==
    /\ pc[t] = "read"
    /\ \E r \in ReadLineResults :
        LET n == locals[t].nlines IN
        IF ExpectLineFromStream(r)
        THEN /\ locals' = [locals EXCEPT
                    ![t].sstr = @ \o Label(n) \o r.line \o Closing(n),
                    ![t].nlines = n + 1]
             /\ pc' = [pc EXCEPT ![t] =
                    IF n + 1 = ExpectedLines THEN "close" ELSE "read"]
        ELSE /\ locals' = [locals EXCEPT ![t].ret = lsb_release_string]
             /\ pc' = [pc EXCEPT ![t] = "return"]
    /\ UNCHANGED <<lsb_release_string, lsb_release_string_critsec, returned>>

\* ExpectEofFromStream, whatever it finds, then Close and the wait status,
\* which is only logged; sstr is stored in the cache and returned.
Store(t) ==
    /\ pc[t] = "close"
    /\ \E eof \in ReadLineResults, status \in WaitStatuses :
        /\ lsb_release_string' = locals[t].sstr
        /\ locals' = [locals EXCEPT ![t].stream = "closed",
                                    ![t].wait_status = status,
                                    ![t].ret = locals[t].sstr]
    /\ pc' = [pc EXCEPT ![t] = "return"]
    /\ UNCHANGED <<lsb_release_string_critsec, returned>>

\* The record of a call that has returned: its thread, the string it
\* returned, what it did with the sub-process, the cache it left, and
\* whether another thread was waiting for the CriticalSection.
CallRecord(t) ==
    [thread |-> t, ret |-> locals[t].ret, stream |-> locals[t].stream,
     wait_status |-> locals[t].wait_status, cache |-> lsb_release_string,
     waiting |-> \E u \in Threads : pc[u] = "enter"]

\* The return: the value has been copied and the locals are destroyed;
\* CritScope's destructor leaves the CriticalSection.
CritScopeLeave(t) ==
    /\ pc[t] = "return"
    /\ lsb_release_string_critsec' = NoThread
    /\ returned' = Append(returned, CallRecord(t))
    /\ pc' = [pc EXCEPT ![t] = "idle"]
    /\ locals' = [locals EXCEPT ![t] = NoLocals]
    /\ UNCHANGED lsb_release_string

---------------------------------------------------------------------------
(* Inputs *)

Fill(n, b) == [i \in 1 .. n |-> b]
Ramp(n, b) == [i \in 1 .. n |-> (b + i - 1) % ByteValues]

\* The payloads given to Send: every length from 0 to one more than
\* MAX_PACKET_SIZE, each with constant and with changing bytes.
Payloads ==
    UNION {{Fill(n, b), Ramp(n, b)} : n \in 0 .. MAX_PACKET_SIZE + 1, b \in Byte}

\* The payloads of the frames a remote peer sends: every length the length
\* prefix can hold, with constant and with changing bytes.
ValidPayloads ==
    UNION {{Fill(n, 0), Ramp(n, 1)} : n \in 0 .. PacketLengthRange - 1}

\* One packet on the wire: [2-byte big-endian length][payload bytes].
EncodedFrame(p) == HostToNetwork16(Len(p)) \o p

\* The frames of the payloads ps, one after the other.
RECURSIVE EncodedFrames(_)
EncodedFrames(ps) ==
    IF ps = <<>> THEN <<>> ELSE EncodedFrame(Head(ps)) \o EncodedFrames(Tail(ps))

\* The streams of at most n valid frames that fit the inbound buffer
\* together.
RECURSIVE StreamsUpTo(_)
StreamsUpTo(n) ==
    IF n = 0 THEN {<<>>}
    ELSE LET shorter == StreamsUpTo(n - 1) IN
         shorter \cup
         {Append(ps, p) : <<ps, p>> \in
             {x \in shorter \X ValidPayloads :
                 Len(EncodedFrames(x[1])) + PKT_LEN_SIZE + Len(x[2]) <= BUF_SIZE}}

\* The streams a remote peer sends: one to MaxFrames frames.
FrameStreams == StreamsUpTo(MaxFrames) \ {<<>>}

---------------------------------------------------------------------------
(* The sending transport alone: Send calls and write events, against a     *)
(* socket that may accept any part of what it is given.                    *)

InitSender ==
    /\ outbuf_ = NewBuffer(BUF_SIZE)
    /\ outpos_ = 0
    /\ error = "none"
    /\ wire = <<>>
    /\ log = <<>>
    /\ sentTo = <<>>

InitReceiverIdle ==
    /\ inbuf_ = NewBuffer(BUF_SIZE)
    /\ inpos_ = 0
    /\ pending = <<>>
    /\ packets = <<>>
    /\ nreads = 0
    /\ lastRead = NoRead
    /\ peerSent = <<>>

\* The transport does not listen.
InitNotListening ==
    /\ listen_ = FALSE
    /\ backlog = <<>>
    /\ conns = <<>>
    /\ events = <<>>

\* XmppThread::XmppThread(): nothing posted, nothing called.
InitThread ==
    /\ queue = <<>>
    /\ requests = <<>>
    /\ calls = <<>>
    /\ objects = <<>>
    /\ deleted = <<>>

\* No thread has called ReadLinuxLsbRelease: the statics of lines 310-311
\* as constructed.
InitLsbRelease ==
    /\ lsb_release_string = <<>>
    /\ lsb_release_string_critsec = NoThread
    /\ pc = [t \in Threads |-> "idle"]
    /\ locals = [t \in Threads |-> NoLocals]
    /\ returned = <<>>

SendCall ==
    /\ Len(log) < MaxSends
    /\ \E pv \in Payloads : Send(pv)
    /\ UNCHANGED <<recvVars, acceptVars, threadVars, callVars, lsbVars>>

WriteEvent ==
    /\ OnWriteEvent
    /\ UNCHANGED <<recvVars, acceptVars, threadVars, callVars, lsbVars>>

InitSend == InitSender /\ InitReceiverIdle /\ InitNotListening
    /\ InitThread /\ InitLsbRelease

NextSend == SendCall \/ WriteEvent

SpecSend == InitSend /\ [][NextSend]_vars

---------------------------------------------------------------------------
(* The sending transport on a socket that keeps becoming writable: write   *)
(* events on which the socket accepts at least one byte keep occurring     *)
(* while bytes are buffered.                                               *)

\* A write event whose flush put at least one byte on the wire.
WriteEventAccepted ==
    /\ WriteEvent
    /\ Len(wire') > Len(wire)

SpecDrain == InitSend /\ [][NextSend]_vars /\ WF_vars(WriteEventAccepted)

---------------------------------------------------------------------------
(* The sending transport driven through SendTo *)

SendToCall ==
    /\ Len(log) < MaxSends
    /\ \E pv \in Payloads, addr \in Addresses :
         /\ SendTo(pv, addr)
         /\ sentTo' = Append(sentTo, addr)
    /\ UNCHANGED <<recvVars, acceptVars, threadVars, lsbVars>>

NextSendTo == SendToCall \/ WriteEvent

SpecSendTo == InitSend /\ [][NextSendTo]_vars

---------------------------------------------------------------------------
(* The receiving transport alone: a remote peer has sent a stream of valid *)
(* frames, which reaches the transport in read events of any sizes.        *)

InitRecv ==
    /\ InitSender
    /\ InitNotListening
    /\ InitThread
    /\ InitLsbRelease
    /\ inbuf_ = NewBuffer(BUF_SIZE)
    /\ inpos_ = 0
    /\ packets = <<>>
    /\ nreads = 0
    /\ lastRead = NoRead
    /\ peerSent \in FrameStreams
    /\ pending = EncodedFrames(peerSent)

ReadEvent ==
    /\ OnReadEvent
    /\ UNCHANGED <<sendVars, threadVars, callVars, lsbVars>>

NextRecv == ReadEvent

SpecRecv == InitRecv /\ [][NextRecv]_vars

---------------------------------------------------------------------------
(* The receiving transport and a peer that sends more than the inbound     *)
(* buffer holds: streams of empty and of the longest frames.               *)

\* The payloads of such a stream: empty, and of the greatest length.
StreamPayloads == {Ramp(n, 1) : n \in {0, PacketLengthRange - 1}}

\* The streams of one to MaxFrames such frames.
LongStreams == UNION {[1 .. n -> StreamPayloads] : n \in 1 .. MaxFrames}

InitStream ==
    /\ InitSender
    /\ InitNotListening
    /\ InitThread
    /\ InitLsbRelease
    /\ inbuf_ = NewBuffer(BUF_SIZE)
    /\ inpos_ = 0
    /\ packets = <<>>
    /\ nreads = 0
    /\ lastRead = NoRead
    /\ peerSent \in LongStreams
    /\ pending = EncodedFrames(peerSent)

SpecStream == InitStream /\ [][NextRecv]_vars

---------------------------------------------------------------------------
(* One transport used in both directions: Send and SendRaw calls, write    *)
(* events and read events in any order.                                    *)

\* The bytes given to Send and SendRaw: one byte, the longest packet Send
\* takes, and as many bytes as outbuf_ holds.
CursorPayloads == {Fill(n, 0) : n \in {1, MAX_PACKET_SIZE, BUF_SIZE}}

\* What the peer sends: one frame.
CursorStreams == {ps \in LongStreams : Len(ps) = 1}

InitCursors ==
    /\ InitSender
    /\ InitNotListening
    /\ InitThread
    /\ InitLsbRelease
    /\ inbuf_ = NewBuffer(BUF_SIZE)
    /\ inpos_ = 0
    /\ packets = <<>>
    /\ nreads = 0
    /\ lastRead = NoRead
    /\ peerSent \in CursorStreams
    /\ pending = EncodedFrames(peerSent)

CursorSend ==
    /\ Len(log) < MaxSends
    /\ \E pv \in CursorPayloads : Send(pv)
    /\ UNCHANGED <<recvVars, acceptVars, threadVars, callVars, lsbVars>>

CursorSendRaw ==
    /\ Len(log) < MaxSends
    /\ \E pv \in CursorPayloads : SendRaw(pv)
    /\ UNCHANGED <<recvVars, acceptVars, threadVars, callVars, lsbVars>>

NextCursors == CursorSend \/ CursorSendRaw \/ WriteEvent \/ ReadEvent

SpecCursors == InitCursors /\ [][NextCursors]_vars

---------------------------------------------------------------------------
(* Two transports back to back: what the sender's socket accepts arrives   *)
(* on the socket of a peer transport that is not listening.  The sender's  *)
(* socket accepts all the bytes of every send.                             *)

InitLoop == InitSender /\ InitReceiverIdle /\ InitNotListening
    /\ InitThread /\ InitLsbRelease

LoopSend ==
    /\ Len(log) < MaxSends
    /\ \E pv \in Payloads :
         /\ Send(pv)
         /\ log'[Len(log')].sock \in {NoCall, Returned(PKT_LEN_SIZE + Len(pv))}
    /\ pending' = pending \o SubSeq(wire', Len(wire) + 1, Len(wire'))
    /\ UNCHANGED <<inbuf_, inpos_, packets, nreads, lastRead, peerSent>>
    /\ UNCHANGED <<acceptVars, threadVars, callVars, lsbVars>>

LoopRead ==
    /\ OnReadEvent
    /\ UNCHANGED <<sendVars, threadVars, callVars, lsbVars>>

NextLoop == LoopSend \/ LoopRead

SpecLoop == InitLoop /\ [][NextLoop]_vars

---------------------------------------------------------------------------
(* A listening transport: peers connect, each with one frame's bytes, or   *)
(* none, already sent; read events reach the listening transport and the   *)
(* transports it has created.                                              *)

\* What a connecting peer has sent before it is accepted: nothing, or one
\* frame of at most MaxEarly payload bytes.
EarlyData ==
    {<<>>} \cup {EncodedFrame(p) : p \in {q \in ValidPayloads : Len(q) <= MaxEarly}}

InitAccept ==
    /\ InitSender
    /\ InitReceiverIdle
    /\ InitThread
    /\ InitLsbRelease
    /\ listen_ = TRUE
    /\ backlog = <<>>
    /\ conns = <<>>
    /\ events = <<>>

\* A peer connects: its socket waits on the listening socket.
PeerConnects ==
    /\ Len(backlog) + Len(conns) < MaxConns
    /\ \E data \in EarlyData :
         backlog' = Append(backlog,
                           [socket |-> Len(backlog) + Len(conns) + 1,
                            waiting |-> data])
    /\ UNCHANGED <<listen_, conns, events, recvVars, sendVars, threadVars, callVars, lsbVars>>

ListenerReadEvent ==
    /\ OnReadEvent
    /\ UNCHANGED <<sendVars, threadVars, callVars, lsbVars>>

ConnectionReadEvent ==
    /\ \E i \in 1 .. Len(conns) : OnReadEventOfConnection(i)
    /\ UNCHANGED <<sendVars, threadVars, callVars, lsbVars>>

NextAccept == PeerConnects \/ ListenerReadEvent \/ ConnectionReadEvent

SpecAccept == InitAccept /\ [][NextAccept]_vars

---------------------------------------------------------------------------
(* Threads that call ReadLinuxLsbRelease at any time: each step of a call   *)
(* is one step of its thread, and the threads' steps interleave freely.     *)

InitLsb ==
    /\ InitSender
    /\ InitReceiverIdle
    /\ InitNotListening
    /\ InitThread
    /\ InitLsbRelease

otherVars == <<sendVars, recvVars, acceptVars, threadVars, callVars>>

LsbCall == (\E t \in Threads : Call(t)) /\ UNCHANGED otherVars
LsbEnter == (\E t \in Threads : CritScopeEnter(t)) /\ UNCHANGED otherVars
LsbCheck == (\E t \in Threads : Check(t)) /\ UNCHANGED otherVars
LsbOpen == (\E t \in Threads : Open(t)) /\ UNCHANGED otherVars
LsbReadLine == (\E t \in Threads : ReadLine(t)) /\ UNCHANGED otherVars
LsbStore == (\E t \in Threads : Store(t)) /\ UNCHANGED otherVars
LsbLeave == (\E t \in Threads : CritScopeLeave(t)) /\ UNCHANGED otherVars

NextLsb ==
    \/ LsbCall
    \/ LsbEnter
    \/ LsbCheck
    \/ LsbOpen
    \/ LsbReadLine
    \/ LsbStore
    \/ LsbLeave

SpecLsb == InitLsb /\ [][NextLsb]_vars

---------------------------------------------------------------------------
(* An XmppThread: Login and Disconnect are called from other threads while *)
(* the thread dispatches its queue.                                        *)

\* The settings given to Login.
Settings == {"alice", "bob"}

InitPump ==
    /\ InitSender
    /\ InitReceiverIdle
    /\ InitNotListening
    /\ InitThread
    /\ InitLsbRelease

LoginCall ==
    /\ Len(requests) < MaxRequests
    /\ \E xcs \in Settings : Login(xcs)
    /\ UNCHANGED <<sendVars, recvVars, acceptVars, callVars, lsbVars>>

DisconnectCall ==
    /\ Len(requests) < MaxRequests
    /\ Disconnect
    /\ UNCHANGED <<sendVars, recvVars, acceptVars, callVars, lsbVars>>

DispatchMessage ==
    /\ Dispatch
    /\ UNCHANGED <<sendVars, recvVars, acceptVars, callVars, lsbVars>>

NextPump == LoginCall \/ DisconnectCall \/ DispatchMessage

SpecPump == InitPump /\ [][NextPump]_vars

---------------------------------------------------------------------------
(* Properties of the sending transport *)

SendCalls == {i \in 1 .. Len(log) : log[i].op = "Send"}

\* The call left outbuf_, outpos_ and the bytes on the wire as they were and
\* made no socket_->Send call.
Untouched(e) ==
    /\ e.sock = NoCall
    /\ e.post.wire = e.pre.wire
    /\ e.post.outbuf = e.pre.outbuf
    /\ e.post.outpos = e.pre.outpos

\* C4. Oversized rejection: a Send of more than MAX_PACKET_SIZE bytes
\* returns -1 with the socket error set to EMSGSIZE, hands nothing to the
\* socket and leaves the outbound buffer and its cursor unchanged, whether
\* or not the transport is send-blocked.
C4_OversizedRejected ==
    \A i \in SendCalls :
        Len(log[i].pv) > MAX_PACKET_SIZE =>
            /\ log[i].ret = -1
            /\ log[i].post.error = "EMSGSIZE"
            /\ Untouched(log[i])

\* A Send of MAX_PACKET_SIZE + 1 bytes was made while the transport was
\* send-blocked, part of the packet in flight being on the wire.
C4_Witness ==
    \E i \in SendCalls :
        /\ Len(log[i].pv) = MAX_PACKET_SIZE + 1
        /\ log[i].pre.outpos > 0
        /\ log[i].pre.wire # <<>>

\* C5. Send-blocked drop: while outpos_ > 0, a Send of at most
\* MAX_PACKET_SIZE bytes returns the payload's length, makes no socket Send
\* call and leaves the outbound buffer and its cursor as they were.
C5_BlockedSendDropped ==
    \A i \in SendCalls :
        (Len(log[i].pv) <= MAX_PACKET_SIZE /\ log[i].pre.outpos > 0) =>
            /\ log[i].ret = Len(log[i].pv)
            /\ Untouched(log[i])

\* A non-empty packet was sent while another was partly flushed.
C5_Witness ==
    \E i \in SendCalls :
        /\ Len(log[i].pv) \in 1 .. MAX_PACKET_SIZE
        /\ log[i].pre.outpos > 0
        /\ log[i].pre.wire # <<>>

\* The scenario of C6: two Send calls of non-empty payloads within
\* MAX_PACKET_SIZE on a socket that has accepted zero bytes on every send.
C6_Scenario ==
    /\ Len(log) >= 2
    /\ \A i \in 1 .. 2 :
         /\ log[i].op = "Send"
         /\ Len(log[i].pv) \in 1 .. MAX_PACKET_SIZE
         /\ log[i].post.wire = <<>>

\* C6 as stated: in the scenario the second Send returns its payload's
\* length and puts no further bytes on the wire.
C6_AsStated ==
    C6_Scenario =>
        /\ log[2].ret = Len(log[2].pv)
        /\ log[2].post.wire = log[1].post.wire

\* C6, amended: in the scenario the first Send was dropped (outpos_ back to
\* 0), so the second Send is not send-blocked: it offers its frame to the
\* socket and returns what the socket returned (0 or -1), not its payload's
\* length; it puts no bytes on the wire and leaves outpos_ at 0.
C6_ZeroProgressSends ==
    C6_Scenario =>
        \A i \in 1 .. 2 :
            /\ log[i].pre.outpos = 0
            /\ log[i].sock \in {Returned(-1), Returned(0)}
            /\ Returned(log[i].ret) = log[i].sock
            /\ log[i].post.wire = <<>>
            /\ log[i].post.outpos = 0

\* Two different non-empty payloads were sent, and the socket returned 0 to
\* both calls.
C6_Witness ==
    /\ C6_Scenario
    /\ log[1].sock = Returned(0)
    /\ log[2].sock = Returned(0)
    /\ log[1].pv # log[2].pv

\* C9. Wire format: whenever Send frames a payload of n bytes (n at most
\* MAX_PACKET_SIZE, transport not send-blocked), the bytes placed in the
\* outbound buffer are the 2-byte big-endian integer n followed by the n
\* payload bytes.
C9_FrameIsLengthThenPayload ==
    \A i \in SendCalls :
        (Len(log[i].pv) <= MAX_PACKET_SIZE /\ log[i].pre.outpos = 0) =>
            /\ Len(log[i].framed) = PKT_LEN_SIZE + Len(log[i].pv)
            /\ log[i].framed[1] * ByteValues + log[i].framed[2] = Len(log[i].pv)
            /\ Bytes(log[i].framed, PKT_LEN_SIZE, Len(log[i].pv)) = log[i].pv

\* The Send calls that framed a packet and whose flush made no progress.
ZeroProgressSends ==
    {i \in SendCalls : /\ Len(log[i].pv) <= MAX_PACKET_SIZE
                       /\ log[i].pre.outpos = 0
                       /\ log[i].sock \in {Returned(-1), Returned(0)}}

\* C12. Zero-progress send is discarded: when Send frames a packet and the
\* flush makes no progress (socket_->Send returns 0 or less), outpos_ is
\* back to 0 and Send returns the socket's result, not the payload's
\* length; the transport is not send-blocked, and until the next call no
\* write event puts any byte of the packet on the wire.
C12_ZeroProgressDiscarded ==
    \A i \in ZeroProgressSends :
        /\ log[i].post.outpos = 0
        /\ Returned(log[i].ret) = log[i].sock
        /\ log[i].post.wire = log[i].pre.wire
        /\ i = Len(log) => (outpos_ = 0 /\ wire = log[i].post.wire)

\* After a packet went out whole, a Send of a non-empty packet failed on
\* the socket (-1).
C12_Witness ==
    /\ Len(log) = 2
    /\ log[1].post.outpos = 0
    /\ log[1].post.wire # <<>>
    /\ 2 \in ZeroProgressSends
    /\ log[2].sock = Returned(-1)
    /\ Len(log[2].pv) > 0

\* The Send calls whose first flush sent a part of the frame, not all of it.
PartialSends ==
    {i \in SendCalls : /\ log[i].sock # NoCall
                       /\ log[i].sock[1] > 0
                       /\ log[i].sock[1] < Len(log[i].framed)}

\* The last Send call that framed a packet (0 when none has).
LastFramed ==
    LET F == {0} \cup {i \in SendCalls : log[i].sock # NoCall}
    IN  CHOOSE i \in F : \A j \in F : j <= i

\* The frame of the last packet framed is on the wire, whole, after what was
\* there before it, and nothing is buffered any more.
Drained ==
    /\ outpos_ = 0
    /\ LastFramed > 0
    /\ wire = log[LastFramed].pre.wire \o log[LastFramed].framed

\* C13. Partial send completes: a Send whose first flush sent k bytes of
\* the frame, 0 < k < PKT_LEN_SIZE + len(payload), returns the payload's
\* length and keeps the rest buffered; and if write events on which the
\* socket accepts at least one byte keep occurring, outpos_ eventually
\* returns to 0 with exactly the rest of the frame sent.
C13_PartialSendCompletes ==
    /\ [](\A i \in PartialSends :
            /\ log[i].ret = Len(log[i].pv)
            /\ log[i].post.outpos = Len(log[i].framed) - log[i].sock[1]
            /\ log[i].post.wire = log[i].pre.wire
                   \o Bytes(log[i].framed, 0, log[i].sock[1]))
    /\ ((outpos_ > 0) ~> Drained)

\* The second packet was sent in part by Send, one byte, and the rest, at
\* least two bytes, by write events.
C13_Witness ==
    /\ Len(log) = 2
    /\ 2 \in PartialSends
    /\ log[2].pre.wire # <<>>
    /\ log[2].sock = Returned(1)
    /\ Len(log[2].framed) >= 3
    /\ Drained

\* The frames, as Send framed them, of the first n calls whose flush the
\* socket accepted at least one byte of, one after the other.
RECURSIVE FramesAccepted(_)
FramesAccepted(n) ==
    IF n = 0 THEN <<>>
    ELSE FramesAccepted(n - 1)
            \o (IF log[n].sock # NoCall /\ log[n].sock[1] > 0
                THEN log[n].framed ELSE <<>>)

\* C14. Outbound byte order and frame integrity: the bytes the socket has
\* accepted, followed by the bytes of outbuf_[0, outpos_), are the frames
\* of the Send calls that were not dropped, whole and in call order; so
\* the wire holds whole frames followed by at most one proper, non-empty
\* prefix of a frame, whose rest is what is buffered.
C14_FramesInOrder ==
    /\ wire \o Bytes(outbuf_, 0, outpos_) = FramesAccepted(Len(log))
    /\ outpos_ > 0 =>
          /\ LastFramed > 0
          /\ log[LastFramed].sock[1] > 0
          /\ outpos_ < Len(log[LastFramed].framed)
          /\ Bytes(outbuf_, 0, outpos_)
                = Bytes(log[LastFramed].framed,
                        Len(log[LastFramed].framed) - outpos_, outpos_)

\* The wire holds the frame of a first packet, sent in two parts, and a
\* part of the different frame of a second one, whose rest is buffered.
C14_Witness ==
    /\ Len(log) = 2
    /\ 1 \in PartialSends
    /\ 2 \in PartialSends
    /\ log[1].framed # log[2].framed
    /\ Len(log[1].pv) > 0
    /\ outpos_ > 1
    /\ Len(wire) > Len(log[1].framed) + 1

\* The cursor pos is within an array of BUF_SIZE cells, and the cells below
\* it hold bytes that were written.
InBounds(buf, pos) ==
    /\ Len(buf) = BUF_SIZE
    /\ pos \in 0 .. BUF_SIZE
    /\ \A i \in 1 .. pos : buf[i] \in Byte

\* C15. Buffer cursors stay in bounds: in every reachable state, and before
\* and after every Send, SendRaw and read event, 0 <= inpos_ <= insize_ and
\* 0 <= outpos_ <= outsize_, and the cells below each cursor hold bytes
\* that were written there.
C15_CursorsInBounds ==
    /\ InBounds(inbuf_, inpos_)
    /\ InBounds(outbuf_, outpos_)
    /\ \A i \in 1 .. Len(log) :
         /\ InBounds(log[i].pre.outbuf, log[i].pre.outpos)
         /\ InBounds(log[i].post.outbuf, log[i].post.outpos)
         /\ Len(log[i].framed) <= BUF_SIZE
    /\ \A i \in 1 .. Len(lastRead) :
         /\ InBounds(lastRead[i].pre.inbuf, lastRead[i].pre.inpos)
         /\ InBounds(lastRead[i].post.inbuf, lastRead[i].post.inpos)

\* SendRaw has filled outbuf_ to its last cell, a further SendRaw was
\* refused, and the inbound buffer holds all but the last byte of a longest
\* frame.
C15_Witness ==
    /\ outpos_ = BUF_SIZE
    /\ Len(log) = 2
    /\ log[2].op = "SendRaw"
    /\ log[2].ret = -1
    /\ log[2].sock = NoCall
    /\ inpos_ = PKT_LEN_SIZE + PacketLengthRange - 2

\* The record e is the one a Send of e.pv makes from the state e.pre.
SentAsSend(e) ==
    /\ e.op = "Send"
    /\ e.post.error = IF Len(e.pv) > MAX_PACKET_SIZE THEN "EMSGSIZE"
                      ELSE e.pre.error
    /\ IF Len(e.pv) > MAX_PACKET_SIZE THEN e.ret = -1 /\ Untouched(e)
       ELSE IF e.pre.outpos # 0 THEN e.ret = Len(e.pv) /\ Untouched(e)
       ELSE /\ e.sock # NoCall
            /\ Bytes(e.framed, PKT_LEN_SIZE, Len(e.pv)) = e.pv
            /\ e.post.wire = e.pre.wire \o SocketTaken(e.framed, e.sock[1])
            /\ e.ret = IF e.sock[1] <= 0 THEN e.sock[1] ELSE Len(e.pv)

\* C11. SendTo(payload, addr) does what Send(payload) does exactly when addr
\* is the transport's remote address; for any other address it returns -1
\* with the socket error set to ENOTCONN, hands nothing to the socket and
\* leaves the outbound buffer and its cursor unchanged.
C11_SendToRemoteOnly ==
    /\ Len(sentTo) = Len(log)
    /\ \A i \in 1 .. Len(sentTo) :
         IF sentTo[i] = GetRemoteAddress
         THEN SentAsSend(log[i])
         ELSE /\ log[i].op = "SendTo"
              /\ log[i].ret = -1
              /\ log[i].post.error = "ENOTCONN"
              /\ Untouched(log[i])

\* A packet went out through SendTo to the remote address, and a SendTo to
\* another address was then made while part of it was still buffered.
C11_Witness ==
    /\ Len(sentTo) = 2
    /\ sentTo[1] = GetRemoteAddress
    /\ sentTo[2] # GetRemoteAddress
    /\ log[1].post.outpos > 0
    /\ log[2].pre.outpos > 0
    /\ Len(log[2].pv) \in 1 .. MAX_PACKET_SIZE

---------------------------------------------------------------------------
(* Properties of the receiving transport *)

\* C2. Partial-read reassembly: however the bytes of one encoded frame are
\* split over read events, the transport raises no packet-received event
\* before the last byte of the frame has been read, and exactly one, with
\* the frame's payload, once it has.
C2_PartialReadReassembly ==
    Len(peerSent) = 1 =>
        packets = IF pending = <<>> THEN <<peerSent[1]>> ELSE <<>>

\* A frame of the largest payload was read one byte at a time, and delivered.
C2_Witness ==
    /\ Len(peerSent) = 1
    /\ Len(peerSent[1]) = PacketLengthRange - 1
    /\ nreads = PKT_LEN_SIZE + Len(peerSent[1])
    /\ packets = <<peerSent[1]>>

\* C3. Multi-frame batching: when the concatenation of N valid frames is
\* delivered in one read event, N packet-received events are raised, the
\* i-th with the payload of the i-th frame.
C3_MultiFrameBatching ==
    (nreads = 1 /\ pending = <<>>) => packets = peerSent

\* Two frames of different non-empty payloads were delivered in one read
\* event.
C3_Witness ==
    /\ nreads = 1
    /\ pending = <<>>
    /\ Len(peerSent) = 2
    /\ Len(peerSent[1]) > 0
    /\ Len(peerSent[2]) > 0
    /\ peerSent[1] # peerSent[2]
    /\ Len(packets) = 2

\* C16. Inbound overflow branch is unreachable: a full inbound buffer always
\* holds a complete frame, so after ProcessInput inpos_ is less than
\* insize_ in every read event, and the reset of lines 214-218 (inpos_ = 0,
\* the buffered bytes lost) never runs, whatever the peer sends.
C16_NoInboundOverflow ==
    /\ inpos_ < BUF_SIZE
    /\ \A i \in 1 .. Len(lastRead) :
         /\ ~lastRead[i].overflow
         /\ lastRead[i].post.inpos < BUF_SIZE
         /\ lastRead[i].post.inpos < PKT_LEN_SIZE + PacketLengthRange - 1

\* A read event filled the inbound buffer to its last cell: Recv added to
\* all but one byte of a longest frame its last byte and one byte more.
C16_Witness ==
    /\ lastRead # NoRead
    /\ lastRead[1].pre.inpos = PKT_LEN_SIZE + PacketLengthRange - 2
    /\ lastRead[1].recv = Returned(BUF_SIZE - lastRead[1].pre.inpos)
    /\ lastRead[1].post.inpos = 1
    /\ Len(packets) = Len(lastRead[1].pre.packets) + 1

\* The n bytes at the front of buf are less than one frame.
ProperPrefixOfFrame(buf, n) ==
    \/ n < PKT_LEN_SIZE
    \/ n < PKT_LEN_SIZE + NetworkToHost16(Bytes(buf, 0, PKT_LEN_SIZE))

\* C17. No complete frame is left undelivered: after every read event of a
\* transport that does not listen, the bytes of inbuf_[0, inpos_) are a
\* proper prefix of one frame, at the front of the buffer, and they are the
\* bytes received so far less the frames of the packets delivered.
C17_NoFrameLeftBuffered ==
    /\ ProperPrefixOfFrame(inbuf_, inpos_)
    /\ EncodedFrames(packets) \o Bytes(inbuf_, 0, inpos_) \o pending
          = EncodedFrames(peerSent)

\* After a longest packet, one read event delivered a second packet and
\* left the prefix and at least one payload byte of a third frame buffered,
\* the rest of which has not been read.
C17_Witness ==
    /\ lastRead # NoRead
    /\ Len(packets) = 2
    /\ Len(lastRead[1].pre.packets) = 1
    /\ Len(packets[1]) = PacketLengthRange - 1
    /\ inpos_ > PKT_LEN_SIZE
    /\ pending # <<>>

\* C18. Receive error leaves the transport untouched: a read event whose
\* Recv returns a negative value changes neither inbuf_ nor inpos_ and
\* raises no signal (no packet, no close); and the bytes buffered before it
\* are delivered all the same: once the stream has been read, the packets
\* raised are the packets sent, whatever reads failed on the way.
C18_RecvErrorChangesNothing ==
    /\ \A i \in 1 .. Len(lastRead) :
         lastRead[i].recv = Returned(-1) =>
             /\ lastRead[i].post = lastRead[i].pre
             /\ lastRead[i].raised = <<>>
             /\ ~lastRead[i].overflow
             /\ inbuf_ = lastRead[i].pre.inbuf
             /\ inpos_ = lastRead[i].pre.inpos
             /\ packets = lastRead[i].pre.packets
    /\ pending = <<>> => packets = peerSent

\* Recv failed while the inbound buffer held a delivered packet's stale
\* bytes and all but the last byte of a longest frame.
C18_Witness ==
    /\ lastRead # NoRead
    /\ lastRead[1].recv = Returned(-1)
    /\ Len(packets) = 1
    /\ inpos_ = PKT_LEN_SIZE + PacketLengthRange - 2
    /\ Len(pending) = 1

---------------------------------------------------------------------------
(* Properties of two transports back to back *)

\* C1. Framing round-trip: when a sender with an empty outbound buffer has
\* sent one payload of at most MAX_PACKET_SIZE bytes, its socket has
\* accepted the bytes and the peer, whose inbound buffer was empty, has read
\* them all, the peer has raised exactly one packet-received event, and its
\* payload is the payload sent.
C1_FramingRoundTrip ==
    (/\ Len(log) = 1
     /\ Len(log[1].pv) <= MAX_PACKET_SIZE
     /\ log[1].sock = Returned(PKT_LEN_SIZE + Len(log[1].pv))
     /\ pending = <<>>)
        => packets = <<log[1].pv>>

---------------------------------------------------------------------------
(* Properties of the listening transport *)

\* The NewConnection signals among the signals sigs.
NewConnections(sigs) ==
    {i \in 1 .. Len(sigs) : sigs[i].signal = "NewConnection"}

\* C7. Accept fan-out: each read event of a listening transport for which
\* Accept returns a socket raises exactly one new-connection notification,
\* which carries a newly created transport that does not listen and wraps
\* the accepted socket; a read event for which Accept returns NULL raises
\* none; the listening transport itself makes no Recv call and raises no
\* packet-received event.
C7_AcceptFanOut ==
    listen_ =>
        /\ packets = <<>>
        /\ nreads = 0
        /\ \A i \in 1 .. Len(lastRead) :
             LET e == lastRead[i] IN
             /\ e.recv = NoCall
             /\ e.post = e.pre
             /\ IF e.accept = Returned(<<>>)
                THEN e.raised = <<>>
                ELSE /\ Cardinality(NewConnections(e.raised)) = 1
                     /\ \A j \in NewConnections(e.raised) :
                          /\ e.accept = Returned(<<e.raised[j].transport.socket_>>)
                          /\ e.raised[j].transport.listen_ = FALSE
                          /\ e.raised[j].transport.inpos_ = 0
                          /\ e.raised[j].transport.outpos_ = 0
                          /\ Cardinality({k \in NewConnections(events) :
                                 events[k].transport.socket_
                                     = e.raised[j].transport.socket_}) = 1
        /\ Cardinality(NewConnections(events)) = Len(conns)

\* The last connection was accepted while another waited, and the read
\* event primed on its socket delivered a packet.
C7_Witness ==
    /\ listen_
    /\ Len(conns) = MaxConns
    /\ \E i \in 1 .. Len(lastRead) :
         /\ lastRead[i].accept = Returned(<<MaxConns>>)
         /\ Len(lastRead[i].raised) = 2

\* The payloads of the signals sigs, all of them ReadPacket signals of the
\* socket.
PacketsOf(sigs, socket) ==
    IF \A k \in 1 .. Len(sigs) :
          sigs[k].signal = "ReadPacket" /\ sigs[k].socket = socket
    THEN <<[k \in 1 .. Len(sigs) |-> sigs[k].pkt]>>
    ELSE <<>>

\* The read event that accepts a connection raises SignalNewConnection with
\* the new transport and then, from the read event primed on the accepted
\* socket, the packets of the new transport: the frames of the bytes Recv
\* took from those waiting on the socket, the rest being buffered in the
\* new transport.
AcceptPrimesRead ==
    Len(conns') = Len(conns) + 1 =>
        LET s    == Head(backlog)
            c    == conns'[Len(conns')]
            t    == c.transport
            new  == SubSeq(events', Len(events) + 1, Len(events'))
            pkts == PacketsOf(Tail(new), s.socket)
        IN  /\ Len(new) >= 1
            /\ Head(new) = NewConnection(AsyncTCPSocket(s.socket, FALSE))
            /\ pkts # <<>>
            /\ c.socket = s.socket
            /\ ProperPrefixOfFrame(t.inbuf_, t.inpos_)
            /\ EncodedFrames(pkts[1]) \o Bytes(t.inbuf_, 0, t.inpos_)
                  \o c.waiting = s.waiting

\* C19. Accept primes a read after notifying: on a successful Accept the
\* listening transport raises the new-connection notification and then,
\* within the same read event, the read event of the accepted socket, so
\* that the data waiting on that socket is framed and delivered by the new
\* transport at once; no packet-received event of a transport precedes
\* the new-connection notification that carries it.
C19_AcceptPrimesRead ==
    /\ [](\A k \in 1 .. Len(events) :
            events[k].signal = "ReadPacket" =>
                \E j \in 1 .. k - 1 :
                    /\ events[j].signal = "NewConnection"
                    /\ events[j].transport.socket_ = events[k].socket)
    /\ [][AcceptPrimesRead]_vars

\* The read event that accepted the last connection also delivered the
\* packet that was waiting on its socket, a non-empty one.
C19_Witness ==
    /\ listen_
    /\ Len(conns) = MaxConns
    /\ conns[MaxConns].waiting = <<>>
    /\ conns[MaxConns].transport.inpos_ = 0
    /\ lastRead # NoRead
    /\ lastRead[1].accept = Returned(<<MaxConns>>)
    /\ Len(lastRead[1].raised) = 2
    /\ lastRead[1].raised[1].signal = "NewConnection"
    /\ lastRead[1].raised[2].signal = "ReadPacket"
    /\ lastRead[1].raised[2].socket = MaxConns
    /\ Len(lastRead[1].raised[2].pkt) > 0

---------------------------------------------------------------------------
(* Properties of XmppThread *)

\* The call on pump_ that a request leads to.
SameRequest(call, request) ==
    IF request.request = "Login"
    THEN call.call = "DoLogin" /\ call.xcs = request.xcs
    ELSE call.call = "DoDisconnect"

\* C8. Login/disconnect message ordering: the sequence of DoLogin and
\* DoDisconnect calls is the sequence of the Login and Disconnect requests
\* dispatched so far, in the order they were posted: one call per request.
\* Login(settings) then Disconnect() give DoLogin(settings) then
\* DoDisconnect, once each.
C8_CallsInPostOrder ==
    /\ Len(calls) = Len(requests) - Len(queue)
    /\ \A i \in 1 .. Len(calls) : SameRequest(calls[i], requests[i])

\* Login then Disconnect were posted, and both have been dispatched.
C8_Witness ==
    /\ Len(requests) = 2
    /\ requests[1].request = "Login"
    /\ requests[2].request = "Disconnect"
    /\ queue = <<>>
    /\ Len(calls) = 2
    /\ calls[1].call = "DoLogin"
    /\ calls[2].call = "DoDisconnect"

\* C10 as stated: the queue holds at most one request not yet dispatched.
C10_AsStated == Len(queue) <= 1

\* The request a message of the queue stands for.
RequestOf(msg) ==
    IF msg.message_id = MSG_LOGIN
    THEN [request |-> "Login", xcs |-> objects[msg.pdata[1]].xcs]
    ELSE [request |-> "Disconnect", xcs |-> <<>>]

\* C10, amended: Login and Disconnect post without waiting for the queue to
\* drain, so the queue holds every request made and not yet dispatched, in
\* the order made: as many as calls were made since the last dispatch, not
\* at most one.
C10_QueueHoldsEveryRequest ==
    /\ Len(queue) = Len(requests) - Len(calls)
    /\ \A i \in 1 .. Len(queue) :
         RequestOf(queue[i]) = requests[Len(calls) + i]

\* Three requests are waiting in the queue.
C10_Witness ==
    /\ Len(queue) = 3
    /\ queue[1].message_id = MSG_LOGIN
    /\ queue[2].message_id = MSG_DISCONNECT

\* The objects of a class, and the DoLogin calls, so far.
ObjectsOf(class) == {i \in 1 .. Len(objects) : objects[i].class = class}
DoLoginCalls == {k \in 1 .. Len(calls) : calls[k].call = "DoLogin"}

\* C20. Dispatch-time construction and single consumption: Login creates
\* the LoginData only; the socket and the auth strategy are created by
\* OnMessage, one of each per login message dispatched, and passed to the
\* one DoLogin call of that dispatch; the LoginData of the message is
\* deleted once, after that call, and not before the message is
\* dispatched; a disconnect message creates and deletes nothing.
C20_DispatchTimeConstruction ==
    /\ \A i \in 1 .. Len(objects) :
         objects[i].by = IF objects[i].class = "LoginData" THEN "Login"
                         ELSE "OnMessage"
    /\ \A i \in ObjectsOf("XmppAsyncSocketImpl") :
         Cardinality({k \in DoLoginCalls : calls[k].socket = <<i>>}) = 1
    /\ \A i \in ObjectsOf("PreXmppAuthImpl") :
         Cardinality({k \in DoLoginCalls : calls[k].auth = <<i>>}) = 1
    /\ \A k \in DoLoginCalls :
         /\ calls[k].socket[1] \in ObjectsOf("XmppAsyncSocketImpl")
         /\ calls[k].auth[1] \in ObjectsOf("PreXmppAuthImpl")
    /\ Len(objects) = Cardinality(ObjectsOf("LoginData"))
                        + 2 * Cardinality(DoLoginCalls)
    /\ Len(deleted) = Cardinality(DoLoginCalls)
    /\ \A j \in 1 .. Len(deleted) :
         /\ deleted[j].object \in ObjectsOf("LoginData")
         /\ deleted[j].calls \in DoLoginCalls
         /\ calls[deleted[j].calls].xcs = objects[deleted[j].object].xcs
         /\ \A h \in 1 .. Len(deleted) :
              h # j => /\ deleted[h].object # deleted[j].object
                       /\ deleted[h].calls # deleted[j].calls
    /\ \A m \in 1 .. Len(queue) :
         queue[m].message_id = MSG_LOGIN =>
             \A j \in 1 .. Len(deleted) : <<deleted[j].object>> # queue[m].pdata

\* Two logins and a disconnect were dispatched while a third login waited
\* in the queue.
C20_Witness ==
    /\ Cardinality(DoLoginCalls) = 2
    /\ Len(calls) = 3
    /\ Len(deleted) = 2
    /\ Len(queue) = 1
    /\ queue[1].message_id = MSG_LOGIN

---------------------------------------------------------------------------
(* C21 *)

\* The threads inside the compute-or-read section of ReadLinuxLsbRelease.
InsideLsb == {t \in Threads : pc[t] \in {"check", "open", "read", "close", "return"}}

\* C21: in every interleaving of concurrent ReadLinuxLsbRelease calls, at
\* most one thread is inside the compute-or-read section, and it is the one
\* holding the critical section; once a call has returned a non-empty
\* string, every later call returns the same string without opening the
\* sub-process; a call that fails returns the empty string and leaves the
\* cache empty, and the next call opens the sub-process again instead of
\* returning a cached result.
C21_LsbReleaseCache ==
    /\ Cardinality(InsideLsb) <= 1
    /\ \A t \in InsideLsb : lsb_release_string_critsec = t
    /\ \A i \in 1 .. Len(returned) :
        /\ returned[i].ret # <<>> =>
            /\ returned[i].cache = returned[i].ret
            /\ \A j \in i + 1 .. Len(returned) :
                /\ returned[j].ret = returned[i].ret
                /\ returned[j].stream = "unopened"
        /\ returned[i].ret = <<>> =>
            /\ returned[i].cache = <<>>
            /\ returned[i].stream # "unopened"
            /\ i < Len(returned) => returned[i + 1].stream # "unopened"
    /\ (\A i \in 1 .. Len(returned) : returned[i].ret = <<>>) =>
        \A t \in Threads : pc[t] = "return" => locals[t].stream # "unopened"

\* A call that failed while another thread was waiting, then a call that
\* ran the sub-process and stored its output, then a call of another thread
\* that returned the stored string.
C21_Witness ==
    /\ Len(returned) = 3
    /\ returned[1].ret = <<>>
    /\ returned[1].waiting
    /\ returned[2].ret # <<>>
    /\ returned[2].stream = "closed"
    /\ returned[2].wait_status = "nonzero"
    /\ returned[3].ret = returned[2].ret
    /\ returned[3].stream = "unopened"
    /\ returned[3].thread # returned[2].thread

=============================================================================
